---- MODULE Spec2Model ----
(***************************************************************************)
(* State-machine model of src/main.rs, the `serve` command of the          *)
(* temperature monitoring service: load_sensors_config, the service loop   *)
(* of handle_serve_command, read_sensor run under join_all, and            *)
(* write_data.                                                             *)
(*                                                                         *)
(* Time is counted in units of 100 ms on the monotonic clock the tokio     *)
(* timers use.  Time passes only where the program waits or blocks: on a   *)
(* timer (TickSleep, JoinSleep), inside the blocking driver call           *)
(* dht22_pi::read, and while the POST is in flight.                        *)
(*                                                                         *)
(* A log line is modelled by its level and its message without the values  *)
(* formatted into it.                                                      *)
(***************************************************************************)
EXTENDS Integers, Sequences, FiniteSets, TLC

\* ----------------------------------------------------------------- bounds
\* cycles of the service loop that are explored
MaxCycles == 3
\* failures of a driver before it returns a reading, per read_sensor call
MaxFails == 1

\* -------------------------------------------------------------- constants
DEFAULT_REFRESH_SECS == 900

\* Option<i32>: None is the empty sequence, Some(v) is <<v>>
None == << >>

Some(v) == << v >>

\* Duration::from_secs / Duration::from_millis / Duration::as_secs, in units
\* of 100 ms
FromSecs(s) == s * 10
FromMillis(ms) == ms \div 100
AsSecs(t) == t \div 10

\* period of read_interval
ReadPeriod == FromMillis(2100)

\* ----------------------------------------------------------------- inputs
\* values of the command line argument refresh_time (Option<i32>)
RefreshTimes == {None, Some(1)}

SensorA == [name |-> "A", pin |-> 4]
SensorB == [name |-> "B", pin |-> 17]

\* values of the command line argument pin of the check command
Pins == {4, 17}

\* what fs::read_to_string and serde_yaml::from_str make of the file at
\* sensors_config_path
ConfigFiles ==
    { [kind |-> k, sensors |-> << >>] :
          k \in {"NotFound", "PermissionDenied", "Other", "InvalidYaml"} }
    \cup
    { [kind |-> "Ok", sensors |-> ss] :
          ss \in { << >>, <<SensorA>>, <<SensorA, SensorB>> } }

\* the indices of the sensors of the largest configuration
AllIds == 1..2

\* dht22_pi::Reading; the f32 fields are counted in tenths
Readings == { [temperature |-> 215, humidity |-> 480],
              [temperature |-> -35, humidity |-> 901] }

\* a driver that answers every dht22_pi::read of the cycle with an error
Forever == 0 - 1

\* what the driver of a sensor does in a cycle: it fails so many times and then
\* returns a reading, or it fails forever
Plans == (0..MaxFails) \cup {Forever}

\* polls of a driver that fails forever that are explored
MaxPolls == MaxFails + 2

\* time the blocking call dht22_pi::read may take
ReadDurations == {0, 1}

\* time between sending the POST and the response or the transport error
PostDurations == {1}

\* HTTP statuses the endpoint answers with
Statuses == {200, 400, 401, 403, 500}

VARIABLES
    pc,            \* position of main: "load", "panic", "tick", "join", "write", "post"
    now,           \* the clock
    config,        \* the configuration file found at startup
    command,       \* args.command: "Serve" or "Check"
    pin,           \* CheckArguments.pin
    checkReads,    \* the calls of dht22_pi::read made by handle_check_command
    printed,       \* what handle_check_command wrote to stdout and stderr
    commandResult, \* what handle_check_command returned
    refresh_time,  \* args.refresh_time
    debug,         \* args.debug
    sensors,       \* the loaded Vec<Sensor>
    deadline,      \* next deadline of refresh_interval
    cycle,         \* cycles started (history)
    behind,        \* whether a further tick of refresh_interval was already due when
                   \* the cycle's tick completed (history)
    prevBehind,    \* the same for the cycle before (history)
    idx,           \* position of join_all in its pass over the readers
    rstate,        \* per reader: "new", "waiting", "done"
    rdeadline,     \* per reader: next deadline of read_interval
    polledAt,      \* per reader: when its latest dht22_pi::read was called (history)
    attempts,      \* per reader: calls of dht22_pi::read made in this cycle (history)
    plan,          \* per sensor: failures the driver answers with before a reading,
                   \* or Forever
    lastRead,      \* per sensor: the Reading the driver returned (history)
    ts,            \* per reader: the timestamp taken at the successful read
    result,        \* per reader: the Vec<Datapoint> it returned
    readings,      \* the Vec<Datapoint> handed to write_data
    posts,         \* the POST attempts made since the cycle's tick (history)
    writesDone,    \* completed calls of write_data (history)
    lastStatus,    \* response to the cycle's POST: None, or Some(status)
    writeResult,   \* what the cycle's write_data returned: "none", "Ok", "Err"
    prevWrite,     \* what write_data returned in the cycle before (history)
    cycleLog       \* log lines emitted since the cycle's tick

vars == << polledAt, command, pin, checkReads, printed, commandResult, pc, now, config, refresh_time, debug, sensors, deadline, cycle, behind, prevBehind,
           prevWrite, idx, rstate,
           rdeadline, attempts, plan, lastRead, ts, result, readings, posts,
           writesDone, lastStatus, writeResult, cycleLog >>

\* ---------------------------------------------------------------- helpers
Max(a, b) == IF a >= b THEN a ELSE b

SetMin(S) == CHOOSE m \in S : \A x \in S : m <= x

K == Len(sensors)

Ids == 1..K

Line(level, msg) == [level |-> level, msg |-> msg]

NoReading == [temperature |-> 0, humidity |-> 0]

\* let refresh = args.refresh_time, or the default
Refresh == IF refresh_time = None THEN DEFAULT_REFRESH_SECS ELSE refresh_time[1]

\* period of refresh_interval
Period == FromSecs(Refresh)

\* tokio::time::interval is built with MissedTickBehavior::Burst: after a tick
\* that came due at `timeout` and completed at `t`, the next one is due one
\* period after `timeout`, however late `t` is.
\* (variant: MissedTickBehavior::Delay)
NextTimeoutDelay(timeout, t, period) == t + period

NextTimeout(timeout, t, period) == timeout + period

\* f64::try_from(f32) widens exactly; i64::try_from(u64) is the same number
\* below 2^63, which every timestamp of the model is.
F64FromF32(x) == x

I64FromU64(t) == t

\* (variant: the name is built label first)
DatapointNewSwapped(reading, label, sensor, timestamp, resolution, c) ==
    [ name     |-> label \o "." \o sensor.name,
      interval |-> resolution,
      value    |-> F64FromF32(reading),
      time     |-> I64FromU64(timestamp),
      cycle    |-> c ]

\* (variant: interval and time are assigned the other's argument)
DatapointNewCrossed(reading, label, sensor, timestamp, resolution, c) ==
    [ name     |-> sensor.name \o "." \o label,
      interval |-> I64FromU64(timestamp),
      value    |-> F64FromF32(reading),
      time     |-> resolution,
      cycle    |-> c ]

\* Datapoint::new.  The field `cycle` is not part of the struct: it records
\* the cycle that produced the datapoint, and serialization drops it.
DatapointNew(reading, label, sensor, timestamp, resolution, c) ==
    [ name     |-> sensor.name \o "." \o label,
      interval |-> resolution,
      value    |-> F64FromF32(reading),
      time     |-> I64FromU64(timestamp),
      cycle    |-> c ]

\* the vec! a successful read of read_sensor breaks with
ReadingDatapoints(read, sensor, timestamp, resolution, c) ==
    << DatapointNew(read.temperature, "temperature", sensor, timestamp, resolution, c),
       DatapointNew(read.humidity, "humidity", sensor, timestamp, resolution, c) >>

\* .into_iter().flatten().collect() over the outputs of join_all, which are in
\* the order of the sensors
RECURSIVE FlattenFrom(_, _)
FlattenFrom(res, i) ==
    IF i > Len(res) THEN << >> ELSE res[i] \o FlattenFrom(res, i + 1)

RECURSIVE FirstsFrom(_, _)
FirstsFrom(res, i) ==
    IF i > Len(res) THEN << >>
    ELSE (IF res[i] = << >> THEN << >> ELSE << Head(res[i]) >>) \o FirstsFrom(res, i + 1)

\* (variant: only the first datapoint of each reader is kept)
FlattenFirsts(res) == FirstsFrom(res, 1)

\* (variant: the outputs are taken in the order in which the readers finished)
FlattenAsFinished(res) ==
    IF Len(res) = 2 /\ polledAt[2] < polledAt[1]
      THEN res[2] \o res[1]
      ELSE FlattenFrom(res, 1)

Flatten(res) == FlattenFrom(res, 1)

\* serde_json::to_string(&readings): a JSON array of objects with the four
\* fields of Datapoint, in the order of the Vec
ToJson(dps) ==
    [ i \in 1..Len(dps) |->
        [ name |-> dps[i].name, interval |-> dps[i].interval,
          value |-> dps[i].value, time |-> dps[i].time ] ]

Origins(dps) == [ i \in 1..Len(dps) |-> dps[i].cycle ]

\* join_all resolves when every reader has
\* (variant: the join resolves with the first reader that has)
AnyDone == K = 0 \/ \E i \in Ids : rstate[i] = "done"

AllDone == \A i \in Ids : rstate[i] = "done"

\* read_interval.tick() of reader i is ready
TickReady(i) == rstate[i] = "new" \/ (rstate[i] = "waiting" /\ now >= rdeadline[i])

\* the arm of `match response.status()` in write_data
\* (variant: no arm for BAD_REQUEST)
StatusLineNoBadRequest(status) ==
    CASE status = 200 -> Line("INFO", "Data submitted to Graphite successfully!")
      [] status = 403 -> Line("ERROR", "Unauthorized! Check the token.")
      [] OTHER        -> Line("ERROR", "Uncaught error writing data")

StatusLine(status) ==
    CASE status = 200 -> Line("INFO", "Data submitted to Graphite successfully!")
      [] status = 403 -> Line("ERROR", "Unauthorized! Check the token.")
      [] status = 400 -> Line("ERROR", "Bad request!")
      [] OTHER        -> Line("ERROR", "Uncaught error writing data")

\* ------------------------------------------------------------------- Init
Init ==
    /\ \/ /\ command = "Serve"
          /\ pc = "load"
          /\ pin = 0
          /\ refresh_time \in RefreshTimes
          /\ debug \in BOOLEAN
       \/ /\ command = "Check"
          /\ pc = "check"
          /\ pin \in Pins
          /\ refresh_time = None
          /\ debug = FALSE
    /\ checkReads = << >>
    /\ printed = << >>
    /\ commandResult = "none"
    /\ now = 0
    /\ config \in ConfigFiles
    /\ sensors = << >>
    /\ deadline = 0
    /\ cycle = 0
    /\ behind = FALSE
    /\ prevBehind = FALSE
    /\ prevWrite = "none"
    /\ idx = 1
    /\ rstate = << >>
    /\ rdeadline = << >>
    /\ attempts = << >>
    /\ polledAt = << >>
    /\ plan = << >>
    /\ lastRead = << >>
    /\ ts = << >>
    /\ result = << >>
    /\ readings = << >>
    /\ posts = << >>
    /\ writesDone = 0
    /\ lastStatus = None
    /\ writeResult = "none"
    /\ cycleLog = << >>

\* ---------------------------------------------------------------- actions
\* what dht22_pi::read returns to handle_check_command
CheckOutcomes ==
    { [kind |-> "Ok", reading |-> r] : r \in Readings }
    \cup
    { [kind |-> k, reading |-> NoReading] : k \in {"Checksum", "Timeout", "Gpio"} }

\* the line an arm of the match of handle_check_command prints
CheckLine(outcome) ==
    IF outcome.kind = "Ok"
      THEN [stream |-> "stdout", msg |-> "Reading", reading |-> outcome.reading]
    ELSE IF outcome.kind = "Checksum"
      THEN [stream |-> "stderr", msg |-> "Checksum value of the reading is incorrect!",
            reading |-> NoReading]
    ELSE IF outcome.kind = "Timeout"
      THEN [stream |-> "stderr", msg |-> "Timeout reading the sensor value",
            reading |-> NoReading]
    ELSE [stream |-> "stderr", msg |-> "Problem reading GPIO value", reading |-> NoReading]

\* (variant: the check command reads again after a failed read)
HandleCheckRetry ==
    /\ pc = "check"
    /\ \E outcome \in CheckOutcomes, d \in ReadDurations :
         /\ now' = now + d
         /\ checkReads' = Append(checkReads, [pin |-> pin, outcome |-> outcome])
         /\ printed' = Append(printed, CheckLine(outcome))
         /\ IF outcome.kind = "Ok" \/ Len(checkReads) >= 1
              THEN commandResult' = "Ok" /\ pc' = "exit"
              ELSE commandResult' = commandResult /\ pc' = pc
    /\ UNCHANGED << polledAt, command, pin, debug, behind, prevBehind, prevWrite, config, refresh_time,
                    sensors, deadline, cycle, idx, rstate, rdeadline, attempts, plan,
                    lastRead, ts, result, readings, posts, writesDone, lastStatus,
                    writeResult, cycleLog >>

\* handle_check_command: one dht22_pi::read(args.pin), the arm of its outcome
\* prints, every arm returns Ok(())
HandleCheck ==
    /\ pc = "check"
    /\ \E outcome \in CheckOutcomes, d \in ReadDurations :
         /\ now' = now + d
         /\ checkReads' = Append(checkReads, [pin |-> pin, outcome |-> outcome])
         /\ printed' = Append(printed, CheckLine(outcome))
    /\ commandResult' = "Ok"
    /\ pc' = "exit"
    /\ UNCHANGED << polledAt, command, pin, debug, behind, prevBehind, prevWrite, config, refresh_time,
                    sensors, deadline, cycle, idx, rstate, rdeadline, attempts, plan,
                    lastRead, ts, result, readings, posts, writesDone, lastStatus,
                    writeResult, cycleLog >>

\* load_sensors_config returns the sensors; refresh_interval is created
LoadOk ==
    /\ pc = "load"
    /\ config.kind = "Ok"
    /\ sensors' = config.sensors
    /\ deadline' = now
    /\ pc' = "tick"
    /\ UNCHANGED << polledAt, command, pin, checkReads, printed, commandResult, debug, behind, prevBehind, prevWrite, now, config, refresh_time, cycle, idx, rstate, rdeadline,
                    attempts, plan, lastRead, ts, result, readings, posts, writesDone, lastStatus, writeResult, cycleLog >>

\* (variant: a configuration that cannot be loaded counts as no sensors)
LoadFailNoSensors ==
    /\ pc = "load"
    /\ config.kind # "Ok"
    /\ sensors' = << >>
    /\ deadline' = now
    /\ pc' = "tick"
    /\ UNCHANGED << polledAt, command, pin, checkReads, printed, commandResult, debug, behind, prevBehind, prevWrite, now, config, refresh_time, cycle, idx, rstate, rdeadline,
                    attempts, plan, lastRead, ts, result, readings, posts, writesDone, lastStatus, writeResult, cycleLog >>

\* load_sensors_config panics
LoadFail ==
    /\ pc = "load"
    /\ config.kind # "Ok"
    /\ cycleLog' =
         IF config.kind = "NotFound"
           THEN << Line("ERROR", "sensors.yaml file not found") >>
         ELSE IF config.kind = "PermissionDenied"
           THEN << Line("ERROR", "Insufficient permissions to read sensors.yaml file") >>
         ELSE IF config.kind = "Other"
           THEN << Line("ERROR", "Unable to read sensors.yaml file") >>
         ELSE << >>
    /\ pc' = "panic"
    /\ UNCHANGED << polledAt, command, pin, checkReads, printed, commandResult, debug, behind, prevBehind, prevWrite, now, config, refresh_time, sensors, deadline, cycle, idx,
                    rstate, rdeadline, attempts, plan, lastRead, ts, result, readings,
                    posts, writesDone, lastStatus, writeResult >>

\* refresh_interval.tick().await is pending: main sleeps until the deadline
TickSleep ==
    /\ pc = "tick"
    /\ cycle < MaxCycles
    /\ now < deadline
    /\ now' = deadline
    /\ UNCHANGED << polledAt, command, pin, checkReads, printed, commandResult, debug, behind, prevBehind, prevWrite, pc, config, refresh_time, sensors, deadline, cycle, idx,
                    rstate, rdeadline, attempts, plan, lastRead, ts, result, readings,
                    posts, writesDone, lastStatus, writeResult,
                    cycleLog >>

\* refresh_interval.tick().await completes; join_all is built over one
\* read_sensor future per sensor.  The drivers' behaviour in the cycle (how
\* often each fails before it returns a reading) is drawn here.
Tick ==
    /\ pc = "tick"
    /\ cycle < MaxCycles
    /\ now >= deadline
    /\ deadline' = NextTimeout(deadline, now, Period)
    /\ cycle' = cycle + 1
    /\ behind' = (now >= deadline + Period)
    /\ prevBehind' = behind
    /\ prevWrite' = writeResult
    /\ idx' = 1
    /\ rstate' = [i \in Ids |-> "new"]
    /\ rdeadline' = [i \in Ids |-> 0]
    /\ attempts' = [i \in Ids |-> 0]
    /\ polledAt' = [i \in Ids |-> 0]
    /\ plan' \in [Ids -> Plans]
    /\ lastRead' = [i \in Ids |-> NoReading]
    /\ ts' = [i \in Ids |-> 0]
    /\ result' = [i \in Ids |-> << >>]
    /\ posts' = << >>
    /\ lastStatus' = None
    /\ writeResult' = "none"
    /\ cycleLog' = << >>
    /\ pc' = "join"
    /\ UNCHANGED << command, pin, checkReads, printed, commandResult, debug, now, config, refresh_time, sensors, readings, writesDone >>

\* the next dht22_pi::read of sensor i returns an error
DriverFails(i) == plan[i] = Forever \/ attempts[i] < plan[i]

\* the timeout of the tick of read_interval that reader i completes now
ReadTimeout(i) == IF rstate[i] = "new" THEN now ELSE rdeadline[i]

\* (variant: the reader gives up at the first error and returns no datapoint)
ReadErrBreak(i) ==
    /\ pc = "join"
    /\ idx = i
    /\ TickReady(i)
    /\ DriverFails(i)
    /\ attempts[i] < MaxPolls
    /\ \E d \in ReadDurations : now' = now + d
    /\ cycleLog' = Append(cycleLog, Line("WARN", "Error sensor read"))
    /\ rdeadline' = [rdeadline EXCEPT ![i] = NextTimeout(ReadTimeout(i), now, ReadPeriod)]
    /\ attempts' = [attempts EXCEPT ![i] = @ + 1]
    /\ polledAt' = [polledAt EXCEPT ![i] = now]
    /\ rstate' = [rstate EXCEPT ![i] = "done"]
    /\ idx' = idx + 1
    /\ UNCHANGED << command, pin, checkReads, printed, commandResult, debug, behind, prevBehind, prevWrite, pc, config, refresh_time, sensors,
                    deadline, cycle, plan, lastRead, ts, result, readings, posts,
                    writesDone, lastStatus, writeResult >>

\* (variant: the reader gives up after MaxFails + 1 errors)
ReadErrBounded(i) ==
    /\ pc = "join"
    /\ idx = i
    /\ TickReady(i)
    /\ DriverFails(i)
    /\ attempts[i] < MaxPolls
    /\ \E d \in ReadDurations : now' = now + d
    /\ cycleLog' = Append(cycleLog, Line("WARN", "Error sensor read"))
    /\ rdeadline' = [rdeadline EXCEPT ![i] = NextTimeout(ReadTimeout(i), now, ReadPeriod)]
    /\ attempts' = [attempts EXCEPT ![i] = @ + 1]
    /\ polledAt' = [polledAt EXCEPT ![i] = now]
    /\ rstate' = [rstate EXCEPT ![i] = IF attempts[i] >= MaxFails THEN "done" ELSE "waiting"]
    /\ idx' = IF attempts[i] >= MaxFails THEN idx + 1 ELSE idx
    /\ UNCHANGED << command, pin, checkReads, printed, commandResult, debug, behind, prevBehind, prevWrite, pc, config, refresh_time, sensors,
                    deadline, cycle, plan, lastRead, ts, result, readings, posts,
                    writesDone, lastStatus, writeResult >>

\* reader i: read_interval.tick() completes, dht22_pi::read returns an error
\* (the arm Err(error) is the same for every ReadingError), the reader logs it
\* and loops
ReadErr(i) ==
    /\ pc = "join"
    /\ idx = i
    /\ TickReady(i)
    /\ DriverFails(i)
    /\ attempts[i] < MaxPolls
    /\ \E d \in ReadDurations : now' = now + d
    /\ cycleLog' = Append(cycleLog, Line("WARN", "Error sensor read"))
    /\ rdeadline' = [rdeadline EXCEPT ![i] = NextTimeout(ReadTimeout(i), now, ReadPeriod)]
    /\ attempts' = [attempts EXCEPT ![i] = @ + 1]
    /\ polledAt' = [polledAt EXCEPT ![i] = now]
    /\ rstate' = [rstate EXCEPT ![i] = "waiting"]
    /\ UNCHANGED << command, pin, checkReads, printed, commandResult, debug, behind, prevBehind, prevWrite, pc, config, refresh_time, sensors, deadline, cycle, idx, plan,
                    lastRead, ts, result, readings, posts, writesDone,
                    lastStatus, writeResult >>

\* reader i: read_interval.tick() completes, dht22_pi::read returns a reading,
\* the reader breaks with its two datapoints
ReadOk(i) ==
    /\ pc = "join"
    /\ idx = i
    /\ TickReady(i)
    /\ ~DriverFails(i)
    /\ \E d \in ReadDurations, read \in Readings :
         /\ now' = now + d
         /\ lastRead' = [lastRead EXCEPT ![i] = read]
         /\ ts' = [ts EXCEPT ![i] = AsSecs(now + d)]
         /\ result' = [result EXCEPT ![i] =
                ReadingDatapoints(read, sensors[i], AsSecs(now + d), Refresh, cycle)]
    /\ cycleLog' = Append(cycleLog, Line("INFO", "Successfully read " \o sensors[i].name))
    /\ rdeadline' = [rdeadline EXCEPT ![i] = NextTimeout(ReadTimeout(i), now, ReadPeriod)]
    /\ attempts' = [attempts EXCEPT ![i] = @ + 1]
    /\ polledAt' = [polledAt EXCEPT ![i] = now]
    /\ rstate' = [rstate EXCEPT ![i] = "done"]
    /\ idx' = idx + 1
    /\ UNCHANGED << command, pin, checkReads, printed, commandResult, debug, behind, prevBehind, prevWrite, pc, config, refresh_time, sensors, deadline, cycle, plan,
                    readings, posts, writesDone, lastStatus,
                    writeResult >>

\* (variant: the readers are awaited one after the other)
ReaderPendingSequential ==
    /\ pc = "join"
    /\ idx \in Ids
    /\ ~TickReady(idx)
    /\ idx' = IF rstate[idx] = "done" THEN idx + 1 ELSE idx
    /\ now' = IF rstate[idx] = "done" THEN now ELSE rdeadline[idx]
    /\ UNCHANGED << polledAt, command, pin, checkReads, printed, commandResult, debug, behind, prevBehind, prevWrite, pc, config, refresh_time, sensors,
                    deadline, cycle, rstate, rdeadline, attempts, plan, lastRead, ts,
                    result, readings, posts, writesDone, lastStatus, writeResult,
                    cycleLog >>

\* join_all passes over a reader that has finished, or whose tick is pending
ReaderPending ==
    /\ pc = "join"
    /\ idx \in Ids
    /\ ~TickReady(idx)
    /\ idx' = idx + 1
    /\ UNCHANGED << polledAt, command, pin, checkReads, printed, commandResult, debug, behind, prevBehind, prevWrite, pc, now, config, refresh_time, sensors, deadline, cycle,
                    rstate, rdeadline, attempts, plan, lastRead, ts, result, readings,
                    posts, writesDone, lastStatus, writeResult,
                    cycleLog >>

\* join_all is pending after a pass: the task sleeps until the earliest timer
\* of a waiting reader, then passes over the readers again
\* (variant: the task is polled again at once, no timer is waited for)
JoinSleepNoWait ==
    /\ pc = "join"
    /\ idx = K + 1
    /\ ~AllDone
    /\ idx' = 1
    /\ UNCHANGED << now, polledAt, command, pin, checkReads, printed, commandResult, debug, behind,
                    prevBehind, prevWrite, pc, config, refresh_time, sensors, deadline, cycle,
                    rstate, rdeadline, attempts, plan, lastRead, ts, result, readings, posts,
                    writesDone, lastStatus, writeResult, cycleLog >>

JoinSleep ==
    /\ pc = "join"
    /\ idx = K + 1
    /\ ~AllDone
    /\ now' = Max(now, SetMin({ rdeadline[i] : i \in { j \in Ids : rstate[j] # "done" } }))
    /\ idx' = 1
    /\ UNCHANGED << polledAt, command, pin, checkReads, printed, commandResult, debug, behind, prevBehind, prevWrite, pc, config, refresh_time, sensors, deadline, cycle, rstate,
                    rdeadline, attempts, plan, lastRead, ts, result, readings, posts, writesDone, lastStatus, writeResult, cycleLog >>

\* (variant: write_data is not called with an empty list)
JoinCompleteSkipEmpty ==
    /\ pc = "join"
    /\ idx = K + 1
    /\ AllDone
    /\ readings' = Flatten(result)
    /\ pc' = IF Flatten(result) = << >> THEN "tick" ELSE "write"
    /\ UNCHANGED << polledAt, command, pin, checkReads, printed, commandResult, debug, behind, prevBehind, prevWrite, now, config, refresh_time, sensors, deadline, cycle, idx,
                    rstate, rdeadline, attempts, plan, lastRead, ts, result, posts, writesDone, lastStatus, writeResult, cycleLog >>

\* join_all resolves; its outputs are flattened into `readings` and write_data
\* is called
JoinComplete ==
    /\ pc = "join"
    /\ idx = K + 1
    /\ AllDone
    /\ readings' = Flatten(result)
    /\ pc' = "write"
    /\ UNCHANGED << polledAt, command, pin, checkReads, printed, commandResult, debug, behind, prevBehind, prevWrite, now, config, refresh_time, sensors, deadline, cycle, idx,
                    rstate, rdeadline, attempts, plan, lastRead, ts, result, posts, writesDone, lastStatus, writeResult, cycleLog >>

\* the call of write_data and write_data up to send(): the body is serialized
\* (to_string of a Vec<Datapoint> does not fail) and the POST is sent.  `dbg`
\* is args.debug, which is in scope at the call and is not looked at.
\* (variant: the request is sent without awaiting write_data)
WriteSendForget(dbg) ==
    /\ pc = "write"
    /\ posts' = Append(posts, [body |-> ToJson(readings), origin |-> Origins(readings)])
    /\ cycleLog' = Append(cycleLog, Line("INFO", "Sending a POST request to Grafana"))
    /\ readings' = << >>
    /\ pc' = "tick"
    /\ UNCHANGED << polledAt, command, pin, checkReads, printed, commandResult, debug, behind, prevBehind, prevWrite, now, config, refresh_time, sensors, deadline, cycle, idx,
                    rstate, rdeadline, attempts, plan, lastRead, ts, result, writesDone,
                    lastStatus, writeResult >>

\* (variant: with the debug flag set the data is not sent)
WriteSendDebugSkips(dbg) ==
    /\ pc = "write"
    /\ posts' = IF dbg THEN posts
              ELSE Append(posts, [body |-> ToJson(readings), origin |-> Origins(readings)])
    /\ cycleLog' = IF dbg THEN cycleLog
                 ELSE Append(cycleLog, Line("INFO", "Sending a POST request to Grafana"))
    /\ pc' = IF dbg THEN "tick" ELSE "post"
    /\ readings' = IF dbg THEN << >> ELSE readings
    /\ writesDone' = IF dbg THEN writesDone + 1 ELSE writesDone
    /\ writeResult' = IF dbg THEN "Ok" ELSE writeResult
    /\ UNCHANGED << polledAt, command, pin, checkReads, printed, commandResult, debug, behind, prevBehind, prevWrite, now, config, refresh_time,
                    sensors, deadline, cycle, idx, rstate, rdeadline, attempts, plan,
                    lastRead, ts, result, lastStatus >>

WriteSend(dbg) ==
    /\ pc = "write"
    /\ posts' = Append(posts, [body |-> ToJson(readings), origin |-> Origins(readings)])
    /\ cycleLog' = Append(cycleLog, Line("INFO", "Sending a POST request to Grafana"))
    /\ pc' = "post"
    /\ UNCHANGED << polledAt, command, pin, checkReads, printed, commandResult, debug, behind, prevBehind, prevWrite, now, config, refresh_time, sensors, deadline, cycle, idx,
                    rstate, rdeadline, attempts, plan, lastRead, ts, result, readings,
                    writesDone, lastStatus, writeResult >>

\* send().await returns a response: write_data logs it, matches on its status
\* and returns Ok(()); main drops the result and loops
PostResponse ==
    /\ pc = "post"
    /\ \E d \in PostDurations, status \in Statuses :
         /\ now' = now + d
         /\ lastStatus' = Some(status)
         /\ cycleLog' = cycleLog \o << Line("INFO", "Received response"),
                                      StatusLine(status) >>
    /\ writeResult' = "Ok"
    /\ writesDone' = writesDone + 1
    /\ readings' = << >>
    /\ pc' = "tick"
    /\ UNCHANGED << polledAt, command, pin, checkReads, printed, commandResult, debug, behind, prevBehind, prevWrite, config, refresh_time, sensors, deadline, cycle, idx, rstate,
                    rdeadline, attempts, plan, lastRead, ts, result, posts >>

\* send().await returns an error: `?` returns it from write_data at once;
\* main drops the result and loops
\* (variant: the POST is sent again after a transport error)
PostTransportErrorRetry ==
    /\ pc = "post"
    /\ \E d \in PostDurations : now' = now + d
    /\ lastStatus' = None
    /\ writeResult' = "Err"
    /\ pc' = "write"
    /\ UNCHANGED << polledAt, command, pin, checkReads, printed, commandResult, debug, behind, prevBehind, prevWrite, config, refresh_time, sensors, deadline, cycle, idx, rstate,
                    rdeadline, attempts, plan, lastRead, ts, result, readings, posts, writesDone, cycleLog >>

PostTransportError ==
    /\ pc = "post"
    /\ \E d \in PostDurations : now' = now + d
    /\ lastStatus' = None
    /\ writeResult' = "Err"
    /\ writesDone' = writesDone + 1
    /\ readings' = << >>
    /\ pc' = "tick"
    /\ UNCHANGED << polledAt, command, pin, checkReads, printed, commandResult, debug, behind, prevBehind, prevWrite, config, refresh_time, sensors, deadline, cycle, idx, rstate,
                    rdeadline, attempts, plan, lastRead, ts, result, posts, cycleLog >>

Next ==
    \/ HandleCheck
    \/ LoadOk
    \/ LoadFail
    \/ TickSleep
    \/ Tick
    \/ \E i \in Ids : ReadErr(i)
    \/ \E i \in Ids : ReadOk(i)
    \/ ReaderPending
    \/ JoinSleep
    \/ JoinComplete
    \/ WriteSend(debug)
    \/ PostResponse
    \/ PostTransportError

Spec == Init /\ [][Next]_vars

\* The tokio runtime runs the one task of main whenever it can run: a timer
\* that is due fires and the blocking driver call returns.  When the POST ends
\* is up to the network: the request is sent without a timeout, and nothing
\* makes a response or an error arrive.
FairSpec == Spec /\ WF_vars(Next /\ pc # "post")

\* ----------------------------------------------------------------- claims
Started == pc \notin {"load", "panic"}

\* the outcome class a line of write_data's status match stands for
OutcomeClass(line) ==
    CASE line = Line("INFO", "Data submitted to Graphite successfully!") -> "success"
      [] line = Line("ERROR", "Unauthorized! Check the token.")          -> "auth error"
      [] line = Line("ERROR", "Bad request!")                            -> "bad request"
      [] line = Line("ERROR", "Uncaught error writing data")             -> "generic error"
      [] OTHER                                                           -> "none"

LastLine == IF cycleLog = << >> THEN Line("", "") ELSE cycleLog[Len(cycleLog)]

\* C1: cycles are strictly sequential: whenever a sensor has been polled in
\* cycle N+1, write_data has completed N times, once for each earlier cycle,
\* however long the earlier cycles took.
C1_CyclesSequential ==
    \A i \in DOMAIN attempts : attempts[i] > 0 => writesDone >= cycle - 1

\* a sensor is polled in the second cycle after the first cycle overran the
\* refresh period
C1_Witness ==
    /\ cycle = 2
    /\ pc = "join"
    /\ \E i \in DOMAIN attempts : attempts[i] > 0
    /\ now > deadline
    /\ writesDone = 1

\* C2: with a driver that fails N times and then returns a reading, a call of
\* read_sensor never makes more than N+1 polls, has made exactly N+1 when it
\* returns, and returns two datapoints with the temperature and the humidity
\* of the reading of the last poll.
C2_RetryUntilSuccess ==
    \A i \in DOMAIN attempts :
        /\ plan[i] # Forever => attempts[i] <= plan[i] + 1
        /\ rstate[i] = "done" =>
              /\ attempts[i] = plan[i] + 1
              /\ Len(result[i]) = 2
              /\ result[i][1].value = lastRead[i].temperature
              /\ result[i][2].value = lastRead[i].humidity

\* a reader has returned after MaxFails failures, with a reading whose
\* temperature and humidity differ
C2_Witness ==
    \E i \in DOMAIN attempts :
        /\ rstate[i] = "done"
        /\ plan[i] = MaxFails
        /\ plan[i] >= 1
        /\ attempts[i] = MaxFails + 1
        /\ lastRead[i] \in Readings

\* C3: the submission of a cycle starts only after the reader of every
\* configured sensor has returned its datapoints in that cycle: whenever
\* write_data has been called or a POST has been sent in the cycle, no reader
\* is still retrying.
C3_SubmitAfterAllReaders ==
    (pc \in {"write", "post"} \/ posts # << >>) =>
        \A i \in DOMAIN rstate : rstate[i] = "done" /\ Len(result[i]) = 2

\* a POST has been sent in a cycle of two sensors in which a reader retried
C3_Witness ==
    /\ posts # << >>
    /\ K = 2
    /\ \E i \in DOMAIN plan : plan[i] >= 1 /\ attempts[i] = plan[i] + 1

\* C4: a reader that returns yields exactly two datapoints, named
\* "<sensor.name>.temperature" and "<sensor.name>.humidity", and the list
\* submitted in a cycle of k sensors holds exactly 2*k datapoints.
C4_TwoDatapointsPerSensor ==
    /\ \A i \in DOMAIN rstate : rstate[i] = "done" =>
          /\ Len(result[i]) = 2
          /\ result[i][1].name = sensors[i].name \o ".temperature"
          /\ result[i][2].name = sensors[i].name \o ".humidity"
    /\ pc \in {"write", "post"} => Len(readings) = 2 * K
    /\ \A n \in DOMAIN posts : Len(posts[n].body) = 2 * K

\* the list of a cycle of the two sensors A and B has been submitted with
\* four datapoints
C4_Witness ==
    /\ K = 2
    /\ posts # << >>
    /\ Len(posts[1].body) = 4
    /\ posts[1].body[1].name = "A.temperature"
    /\ posts[1].body[4].name = "B.humidity"

\* C5: when the endpoint answers 200, 403, 400 or 500, write_data logs the
\* line of the outcome class success, auth error, bad request or generic
\* error respectively, returns Ok, and main is back at the tick of the
\* refresh interval.
C5_StatusOutcome ==
    \A st \in {200, 403, 400, 500} :
        lastStatus = Some(st) =>
            /\ OutcomeClass(LastLine) =
                 (CASE st = 200 -> "success"
                    [] st = 403 -> "auth error"
                    [] st = 400 -> "bad request"
                    [] st = 500 -> "generic error")
            /\ writeResult = "Ok"
            /\ pc = "tick"
            /\ writesDone = cycle

\* the endpoint has answered 400 in a cycle that another cycle can follow
C5_Witness ==
    /\ lastStatus = Some(400)
    /\ pc = "tick"
    /\ cycle < MaxCycles

\* C6: a response with status 401 is logged as an auth error, as one with
\* status 403 is
C6_Status401IsAuthError ==
    lastStatus = Some(401) => OutcomeClass(LastLine) = "auth error"

\* C7: after any outcome of a cycle's submission main is back at the tick of
\* the refresh interval with no datapoint kept; a cycle makes no second POST;
\* and every datapoint of a submitted body was produced in the cycle that
\* submits it.
C7_NoRetryNoQueue ==
    /\ writeResult # "none" =>
          /\ pc = "tick"
          /\ readings = << >>
          /\ writesDone = cycle
    /\ Len(posts) <= 1
    /\ \A n \in DOMAIN posts :
          \A j \in DOMAIN posts[n].origin : posts[n].origin[j] = cycle
    /\ \A j \in DOMAIN readings : readings[j].cycle = cycle

\* the cycle after one whose POST failed in transport has submitted its own
\* datapoints
C7_Witness ==
    /\ prevWrite = "Err"
    /\ cycle >= 2
    /\ K = 2
    /\ Len(posts) = 1
    /\ Len(posts[1].body) = 4
    /\ writeResult # "none"

\* C8: when the POST fails in transport, write_data emits an error log line
\* before the loop continues
C8_TransportFailureLogged ==
    (writeResult = "Err" /\ pc = "tick") =>
        \E j \in DOMAIN cycleLog : cycleLog[j].level = "ERROR"

\* C9: ticks of the refresh interval are neither skipped nor coalesced: the
\* tick with number n, due at (n-1) periods after the start, is the one that
\* starts cycle n, and not before it is due; so the next tick to complete is
\* always the one with number cycle+1, however late the loop is.
C9_TicksNotSkipped ==
    Started =>
        /\ deadline = cycle * Period
        /\ cycle >= 1 => now >= (cycle - 1) * Period

\* the first cycle overran by two periods, the second was started by the
\* second tick when the third was already due, and the third tick has started
\* a cycle of its own
C9_Witness ==
    /\ cycle = 3
    /\ prevBehind
    /\ pc = "join"

\* C10: a cycle makes exactly one POST, and its body is the list of the
\* cycle's datapoints: every datapoint a reader returned in the cycle is in
\* the body exactly once, and the body holds nothing else.
C10_OnePostFullBody ==
    /\ Len(posts) <= 1
    /\ (pc = "post" \/ writeResult # "none") => Len(posts) = 1
    /\ \A n \in DOMAIN posts :
          LET body == posts[n].body IN
          /\ Len(body) = 2 * K
          /\ \A i \in DOMAIN result : \A j \in DOMAIN result[i] :
                Cardinality({ m \in DOMAIN body :
                                /\ body[m].name = result[i][j].name
                                /\ body[m].interval = result[i][j].interval
                                /\ body[m].value = result[i][j].value
                                /\ body[m].time = result[i][j].time }) = 1

\* write_data has returned in a cycle of two sensors, after one POST with the
\* four datapoints
C10_Witness ==
    /\ K = 2
    /\ writeResult # "none"
    /\ Len(posts) = 1
    /\ Len(posts[1].body) = 4
    /\ posts[1].body[1].value # posts[1].body[2].value

\* C11: when the driver of a configured sensor never returns a reading, its
\* reader keeps retrying and never returns, write_data is not called and no
\* POST is sent in that cycle, and the loop never reaches the tick of a later
\* cycle.
C11_StuckSensorStallsService ==
    \A i \in DOMAIN plan :
        plan[i] = Forever =>
            /\ pc = "join"
            /\ rstate[i] # "done"
            /\ result[i] = << >>
            /\ readings = << >>
            /\ posts = << >>
            /\ writeResult = "none"
            /\ writesDone = cycle - 1

\* the driver of one of two sensors fails forever: its reader has polled it
\* more often than a driver of any other plan is, the other reader has returned
C11_Witness ==
    /\ K = 2
    /\ \E i, j \in DOMAIN plan :
          /\ plan[i] = Forever
          /\ attempts[i] = MaxPolls
          /\ rstate[j] = "done"

StuckSensor == \E i \in DOMAIN plan : plan[i] = Forever /\ rstate[i] # "done"

\* C12: the readers of a cycle run independently: the reader of a sensor
\* whose driver returns a reading after N failures is polled N+1 times and no
\* more, and returns its two datapoints, also while the reader of another
\* sensor of the cycle keeps failing and retrying.
C12_ReadersIndependent ==
    \A j \in AllIds :
        /\ []((j \in DOMAIN plan /\ plan[j] # Forever) => attempts[j] <= plan[j] + 1)
        /\ (pc = "join" /\ j \in DOMAIN plan /\ plan[j] # Forever /\ StuckSensor)
              ~> (/\ pc = "join"
                  /\ j \in DOMAIN plan
                  /\ StuckSensor
                  /\ rstate[j] = "done"
                  /\ attempts[j] = plan[j] + 1
                  /\ Len(result[j]) = 2)

\* the second sensor's reader has returned after a retry while the first
\* sensor's reader is still failing
C12_Witness ==
    /\ K = 2
    /\ DOMAIN plan = 1..2
    /\ plan[1] = Forever
    /\ attempts[1] >= 2
    /\ rstate[1] = "waiting"
    /\ plan[2] = 1
    /\ rstate[2] = "done"
    /\ Len(result[2]) = 2

\* C13: every datapoint a reader returns, and every datapoint of a submitted
\* body, has as interval the refresh time given on the command line, 900 when
\* none is given; the time of the two datapoints of a reader is the timestamp
\* taken at its successful read, which lies between the second in which the
\* cycle's tick was due and the current second.
C13_IntervalAndTime ==
    LET resolution == IF refresh_time = << >> THEN 900 ELSE refresh_time[1] IN
    /\ \A i \in DOMAIN result :
          rstate[i] = "done" =>
              /\ result[i][1].interval = resolution
              /\ result[i][2].interval = resolution
              /\ result[i][1].time = ts[i]
              /\ result[i][2].time = ts[i]
              /\ ts[i] * 10 <= now
              /\ ts[i] >= (cycle - 1) * resolution
    /\ \A n \in DOMAIN posts :
          \A m \in DOMAIN posts[n].body :
              /\ posts[n].body[m].interval = resolution
              /\ posts[n].body[m].time = ts[(m + 1) \div 2]

\* a body has been submitted by a service started without a refresh time,
\* with a reader that took its reading in a later second than the cycle began
C13_Witness ==
    /\ refresh_time = << >>
    /\ K = 2
    /\ posts # << >>
    /\ posts[1].body[1].interval = 900
    /\ \E m \in DOMAIN posts[1].body : posts[1].body[m].time > (cycle - 1) * 900

ReadLines ==
    { n \in DOMAIN cycleLog :
        cycleLog[n].level = "WARN" \/ cycleLog[n] = Line("INFO", "Successfully read A")
                                   \/ cycleLog[n] = Line("INFO", "Successfully read B") }

\* C14: with a configuration of no sensor, a cycle polls no driver, hands an
\* empty list to write_data, and still makes its POST, with the empty list as
\* body: when write_data has returned, and when main waits for the tick after
\* a cycle, one POST with an empty body has been made.
C14_NoSensorsEmptyPost ==
    (Started /\ K = 0) =>
        /\ DOMAIN attempts = {}
        /\ ReadLines = {}
        /\ readings = << >>
        /\ (cycle >= 1 /\ pc \in {"tick", "post"}) =>
              /\ Len(posts) = 1
              /\ posts[1].body = << >>
              /\ Line("INFO", "Sending a POST request to Grafana") \in
                    { cycleLog[n] : n \in DOMAIN cycleLog }

\* the second cycle of a service without sensors has made its POST and got a
\* response
C14_Witness ==
    /\ config = [kind |-> "Ok", sensors |-> << >>]
    /\ cycle = 2
    /\ pc = "tick"
    /\ posts = << [body |-> << >>, origin |-> << >>] >>
    /\ lastStatus = Some(200)

C16_ConfigFailureFatal ==
    /\ (command = "Serve" /\ config.kind # "Ok") =>
          /\ pc \in {"load", "panic"}
          /\ cycle = 0
          /\ sensors = << >>
          /\ DOMAIN attempts = {}
          /\ DOMAIN plan = {}
          /\ posts = << >>
          /\ writesDone = 0
          /\ now = 0
          /\ ReadLines = {}
    /\ pc = "panic" => config.kind \in {"NotFound", "PermissionDenied", "Other", "InvalidYaml"}

\* the service has stopped on a malformed file
C16_Witness ==
    /\ pc = "panic"
    /\ config.kind = "InvalidYaml"
    /\ cycle = 0
    /\ posts = << >>

\* C17: the check command reads the driver once, on the pin it was given, and
\* ends whatever the read returned: a reading is printed to stdout, a
\* checksum failure, a timeout and a GPIO error each print their own line to
\* stderr, the command returns Ok, and no timer, sensor reader, cycle or POST
\* exists in its run.
C17_CheckReadsOnce ==
    command = "Check" =>
        /\ pc \in {"check", "exit"}
        /\ cycle = 0 /\ posts = << >> /\ writesDone = 0 /\ cycleLog = << >>
        /\ deadline = 0 /\ rdeadline = << >> /\ attempts = << >> /\ sensors = << >>
        /\ pc = "check" => checkReads = << >> /\ printed = << >> /\ commandResult = "none"
        /\ pc = "exit" =>
              /\ Len(checkReads) = 1
              /\ checkReads[1].pin = pin
              /\ Len(printed) = 1
              /\ commandResult = "Ok"
              /\ LET kind == checkReads[1].outcome.kind
                     line == printed[1]
                 IN  /\ kind = "Ok" =>
                           /\ line.stream = "stdout"
                           /\ line.reading = checkReads[1].outcome.reading
                     /\ kind = "Checksum" =>
                           /\ line.stream = "stderr"
                           /\ line.msg = "Checksum value of the reading is incorrect!"
                     /\ kind = "Timeout" =>
                           /\ line.stream = "stderr"
                           /\ line.msg = "Timeout reading the sensor value"
                     /\ kind = "Gpio" =>
                           /\ line.stream = "stderr"
                           /\ line.msg = "Problem reading GPIO value"

\* the check command has ended after a read on pin 17 that timed out
C17_Witness ==
    /\ command = "Check"
    /\ pc = "exit"
    /\ pin = 17
    /\ Len(checkReads) = 1
    /\ checkReads[1].outcome.kind = "Timeout"
    /\ commandResult = "Ok"

\* C18: within one call of read_sensor, a driver poll that follows another
\* poll of the same reader starts at least the minimum poll interval of 2.1
\* seconds after that poll started, also when the earlier poll was made late.
C18_PollsSpaced ==
    [][\A i \in DOMAIN attempts :
          (i \in DOMAIN attempts' /\ attempts[i] >= 1 /\ attempts'[i] = attempts[i] + 1)
              => now >= polledAt[i] + ReadPeriod]_vars

\* no driver of the cycle fails for ever
NoStuckSensor == \A i \in DOMAIN plan : plan[i] # Forever

\* the cycles of the model that have a next cycle
NextCycles == 1..(MaxCycles - 1)

\* C19 as stated: in a cycle in which the driver of every sensor returns a
\* reading in the end, under fair scheduling every reader returns, the cycle's
\* POST is sent and the cycle of the next tick starts; the service loop has no
\* exit.
C19_CycleLiveness ==
    /\ [](command = "Serve" /\ pc \notin {"load", "panic"}
             => pc \in {"tick", "join", "write", "post"} /\ commandResult = "none")
    /\ \A c \in NextCycles :
          /\ (cycle = c /\ pc = "join" /\ NoStuckSensor) ~> (cycle = c /\ pc = "join" /\ AllDone)
          /\ (cycle = c /\ pc = "join" /\ NoStuckSensor)
                ~> (cycle = c /\ pc = "post" /\ Len(posts) = 1)
          /\ (cycle = c /\ pc = "join" /\ NoStuckSensor) ~> (cycle = c + 1)

\* C19 as amended: in such a cycle every reader returns and the cycle's POST
\* is sent, and the service loop has no exit; the cycle of the next tick
\* starts in the runs in which every POST ends with a response or an error.
C19_CycleLivenessIfPostEnds ==
    /\ [](command = "Serve" /\ pc \notin {"load", "panic"}
             => pc \in {"tick", "join", "write", "post"} /\ commandResult = "none")
    /\ \A c \in NextCycles :
          /\ (cycle = c /\ pc = "join" /\ NoStuckSensor) ~> (cycle = c /\ pc = "join" /\ AllDone)
          /\ (cycle = c /\ pc = "join" /\ NoStuckSensor)
                ~> (cycle = c /\ pc = "post" /\ Len(posts) = 1)
    /\ [](pc = "post" => <>(pc # "post"))
          => \A c \in NextCycles : (cycle = c /\ pc = "join" /\ NoStuckSensor) ~> (cycle = c + 1)

\* the last cycle of the model has started, late, after every earlier cycle
\* of a service with two sensors ended with its call of write_data
C19_Witness ==
    /\ K = 2
    /\ cycle = MaxCycles
    /\ pc = "join"
    /\ writesDone = MaxCycles - 1
    /\ behind
    /\ \A i \in Ids : rstate[i] = "new"

\* C20: the list that is posted holds, for the sensors in the order of the
\* configuration, the temperature datapoint of the sensor and right after it
\* its humidity datapoint, each with the value that sensor's driver returned,
\* whichever reader finished first.
C20_ListInConfigOrder ==
    \A n \in DOMAIN posts :
        /\ Len(posts[n].body) = 2 * Len(config.sensors)
        /\ \A i \in DOMAIN config.sensors :
              /\ posts[n].body[2 * i - 1].name = config.sensors[i].name \o ".temperature"
              /\ posts[n].body[2 * i - 1].value = lastRead[i].temperature
              /\ posts[n].body[2 * i].name = config.sensors[i].name \o ".humidity"
              /\ posts[n].body[2 * i].value = lastRead[i].humidity

\* the reader of the second sensor finished before the reader of the first,
\* which had to poll twice, and the posted list starts with the first sensor
C20_Witness ==
    /\ K = 2
    /\ Len(posts) = 1
    /\ attempts = << 2, 1 >>
    /\ polledAt[2] < polledAt[1]
    /\ posts[1].body[1].name = "A.temperature"
    /\ posts[1].body[3].name = "B.temperature"
    /\ lastRead[1] # lastRead[2]

====
